---- MODULE Spec2Model ----
(***************************************************************************)
(* FreelanceEscrow (contracts/freelance_escrow.py): one escrow job, its   *)
(* lifecycle operations and the evaluate_and_release pipeline.             *)
(*                                                                         *)
(* Texts (urls, judgments, evaluation_result) are sequences of tokens; a   *)
(* token is a run of characters, and a marker is a run of whole tokens    *)
(* ("VERDICT: APPROVED" is "VERDICT: " then "APPROVED"), so Python's `in`  *)
(* on strings is contiguous-subsequence search on tokens and str.upper()   *)
(* is the token-wise map UpperTok.                                         *)
(***************************************************************************)
EXTENDS Integers, Sequences, FiniteSets, TLC

\* ------------------------------------------------------------- bounds
\* Longest judgment text the judge returns, in tokens.
MaxTextLen == 2
\* The block timestamp ranges over created_at and deadline-TimeWindow .. deadline+TimeWindow.
TimeWindow == 1
MaxVerdictLen == 4

\* ------------------------------------------------------ program constants
SecondsPerHour == 3600
\* deploy_escrow(): args=[title, requirements, 72], value=1000000
DeployDeadlineHours == 72
DeployValue == 1000000

\* ---------------------------------------------------------------- identities
ClientAccount == "client"
Accounts == {ClientAccount, "f1", "f2"}
\* Address(""): the sentinel of an unassigned freelancer
NoAddress == ""

\* ---------------------------------------------------------------------- texts
EmptyText == << >>
Tokens == {"verdict: ", "Verdict:", "Approved", "REJECTED"}
Urls == {EmptyText, <<"https://good.url">>}
FetchErrors == {<<"timeout">>, <<"404">>}

SeqsUpTo(S, n) == UNION {[1..k -> S] : k \in 0..n}
\* what gl.call_llm may return
Judgments == SeqsUpTo(Tokens, MaxTextLen)

VARIABLES client, freelancer, job_title, requirements, payment_amount,
          submission_url, status, created_at, deadline, evaluation_result,
          now, transfers, lastOp,
          judgment    \* the answer of the judge fixed in advance (SpecVerdict)

jobVars == <<client, freelancer, job_title, requirements, payment_amount,
             submission_url, status, created_at, deadline, evaluation_result>>
vars == <<client, freelancer, job_title, requirements, payment_amount,
          submission_url, status, created_at, deadline, evaluation_result,
          now, transfers, lastOp, judgment>>

\* ------------------------------------------------------------ str helpers
\* str.upper() on one token
UpperTok(t) ==
    CASE t = "verdict: " -> "VERDICT: "
      [] t = "Verdict:" -> "VERDICT:"
      [] t = "Approved" -> "APPROVED"
      [] OTHER -> t

\* str.upper()
Upper(s) == [i \in 1..Len(s) |-> UpperTok(s[i])]

\* needle in hay
Contains(hay, needle) ==
    \E i \in 1..(Len(hay) - Len(needle) + 1) :
        SubSeq(hay, i, i + Len(needle) - 1) = needle

\* f"REJECTED: Could not access submission URL. Error: {str(e)}"
FetchFailureText(e) == <<"REJECTED: Could not access submission URL. Error: ">> \o e

\* mutant: the REJECTED markers are looked for first
ExtractVerdict_RejectedFirst(ai_response) ==
    LET response_upper == Upper(ai_response) IN
    IF Contains(response_upper, <<"VERDICT: ", "REJECTED">>)
       \/ Contains(response_upper, <<"VERDICT:", "REJECTED">>)
    THEN "REJECTED"
    ELSE IF Contains(response_upper, <<"VERDICT: ", "APPROVED">>)
            \/ Contains(response_upper, <<"VERDICT:", "APPROVED">>)
         THEN "APPROVED"
         ELSE "REJECTED"

\* ------------------------------------------------- verdict parsing (step 4)
\* mutant: the verdict defaults to APPROVED
ExtractVerdict_DefaultApproved(ai_response) ==
    LET response_upper == Upper(ai_response) IN
    IF Contains(response_upper, <<"VERDICT: ", "REJECTED">>)
       \/ Contains(response_upper, <<"VERDICT:", "REJECTED">>)
    THEN "REJECTED"
    ELSE "APPROVED"

ExtractVerdict(ai_response) ==
    LET response_upper == Upper(ai_response) IN
    IF Contains(response_upper, <<"VERDICT: ", "APPROVED">>)
       \/ Contains(response_upper, <<"VERDICT:", "APPROVED">>)
    THEN "APPROVED"
    ELSE IF Contains(response_upper, <<"VERDICT: ", "REJECTED">>)
            \/ Contains(response_upper, <<"VERDICT:", "REJECTED">>)
         THEN "REJECTED"
         ELSE "REJECTED"

\* ------------------------------------------------------- call outcomes
\* lastOp is what the most recent call did: the method, the message of the
\* exception it raised ("" when it returned), its return value, whether
\* gl.get_webpage was reached and how it ended, and the number of gl.call_llm
\* invocations it made.
NoRet == [kind |-> "none"]

\* the call returned normally
Returned(op, ret, fetched, judged) ==
    [op |-> op, err |-> "", ret |-> ret,
     fetched |-> fetched, judgeCalls |-> judged]

\* the call raised
Raised(op, msg, fetched, judged) ==
    [op |-> op, err |-> msg, ret |-> NoRet,
     fetched |-> fetched, judgeCalls |-> judged]

\* a failed assert: raised before any write
AssertFails(op, msg) ==
    /\ lastOp' = Raised(op, msg, "none", 0)
    /\ UNCHANGED <<jobVars, now, transfers>>

\* gl.transfer(to, amount), succeeding
Transfer(to, amount) == transfers' = Append(transfers, [to |-> to, amount |-> amount])

\* --------------------------------------------------------------- __init__
JobInit ==
    /\ client = ClientAccount
    /\ freelancer = NoAddress
    /\ job_title = <<"Build a Landing Page">>
    /\ requirements = <<"Create a responsive landing page">>
    /\ payment_amount = DeployValue
    /\ submission_url = EmptyText
    /\ status = "open"
    /\ created_at = 0
    /\ deadline = created_at + DeployDeadlineHours * SecondsPerHour
    /\ evaluation_result = EmptyText
    /\ now = created_at
    /\ transfers = << >>
    /\ lastOp = Returned("__init__", NoRet, "none", 0)

\* in Spec the judge answers freely at every call and judgment is not used
Init == JobInit /\ judgment = EmptyText

\* ------------------------------------------------------------- accept_job
\* mutant: the status assert is missing
accept_job_NoStatusCheck(sender) ==
    IF sender = client
    THEN AssertFails("accept_job", "Client cannot accept own job")
    ELSE /\ freelancer' = sender
         /\ status' = "in_progress"
         /\ lastOp' = Returned("accept_job", NoRet, "none", 0)
         /\ UNCHANGED <<client, job_title, requirements, payment_amount,
                        submission_url, created_at, deadline, evaluation_result,
                        now, transfers>>

\* mutant: the sender assert is missing
accept_job_NoClientCheck(sender) ==
    IF status # "open" THEN AssertFails("accept_job", "Job not available")
    ELSE /\ freelancer' = sender
         /\ status' = "in_progress"
         /\ lastOp' = Returned("accept_job", NoRet, "none", 0)
         /\ UNCHANGED <<client, job_title, requirements, payment_amount,
                        submission_url, created_at, deadline, evaluation_result,
                        now, transfers>>

accept_job(sender) ==
    IF status # "open" THEN AssertFails("accept_job", "Job not available")
    ELSE IF sender = client
    THEN AssertFails("accept_job", "Client cannot accept own job")
    ELSE /\ freelancer' = sender
         /\ status' = "in_progress"
         /\ lastOp' = Returned("accept_job", NoRet, "none", 0)
         /\ UNCHANGED <<client, job_title, requirements, payment_amount,
                        submission_url, created_at, deadline, evaluation_result,
                        now, transfers>>

AcceptJob == \E sender \in Accounts : accept_job(sender)

\* ------------------------------------------------------------ submit_work
\* mutant: the sender assert is missing
submit_work_AnyCaller(sender, url) ==
    IF status # "in_progress" THEN AssertFails("submit_work", "Job not in progress")
    ELSE IF ~(Len(url) > 0)
    THEN AssertFails("submit_work", "URL cannot be empty")
    ELSE /\ submission_url' = url
         /\ status' = "submitted"
         /\ lastOp' = Returned("submit_work", NoRet, "none", 0)
         /\ UNCHANGED <<client, freelancer, job_title, requirements, payment_amount,
                        created_at, deadline, evaluation_result, now, transfers>>

\* mutant: the url is checked but not stored
submit_work_DropsUrl(sender, url) ==
    IF status # "in_progress" THEN AssertFails("submit_work", "Job not in progress")
    ELSE IF sender # freelancer
    THEN AssertFails("submit_work", "Only assigned freelancer can submit")
    ELSE IF ~(Len(url) > 0)
    THEN AssertFails("submit_work", "URL cannot be empty")
    ELSE /\ status' = "submitted"
         /\ lastOp' = Returned("submit_work", NoRet, "none", 0)
         /\ UNCHANGED <<client, freelancer, job_title, requirements, payment_amount,
                        submission_url, created_at, deadline, evaluation_result,
                        now, transfers>>

\* mutant: work is accepted up to the deadline only
submit_work_BeforeDeadlineOnly(sender, url) ==
    IF status # "in_progress" THEN AssertFails("submit_work", "Job not in progress")
    ELSE IF sender # freelancer
    THEN AssertFails("submit_work", "Only assigned freelancer can submit")
    ELSE IF ~(Len(url) > 0)
    THEN AssertFails("submit_work", "URL cannot be empty")
    ELSE IF now > deadline
    THEN AssertFails("submit_work", "Deadline passed")
    ELSE /\ submission_url' = url
         /\ status' = "submitted"
         /\ lastOp' = Returned("submit_work", NoRet, "none", 0)
         /\ UNCHANGED <<client, freelancer, job_title, requirements, payment_amount,
                        created_at, deadline, evaluation_result, now, transfers>>

submit_work(sender, url) ==
    IF status # "in_progress" THEN AssertFails("submit_work", "Job not in progress")
    ELSE IF sender # freelancer
    THEN AssertFails("submit_work", "Only assigned freelancer can submit")
    ELSE IF ~(Len(url) > 0)
    THEN AssertFails("submit_work", "URL cannot be empty")
    ELSE /\ submission_url' = url
         /\ status' = "submitted"
         /\ lastOp' = Returned("submit_work", NoRet, "none", 0)
         /\ UNCHANGED <<client, freelancer, job_title, requirements, payment_amount,
                        created_at, deadline, evaluation_result, now, transfers>>

SubmitWork == \E sender \in Accounts, url \in Urls : submit_work(sender, url)

\* --------------------------------------------------- evaluate_and_release
\* gl.transfer raised inside evaluate_and_release after evaluation_result was
\* assigned (lines 181-182, 256-268). The source catches nothing here, so the
\* call raises; whether the host keeps or discards the write made before the
\* exception is not decided by the source: both outcomes are modelled (keep).
EvalTransferRaised(written, fetched, judged, keep) ==
    /\ evaluation_result' = IF keep THEN written ELSE evaluation_result
    /\ lastOp' = Raised("evaluate_and_release", "TransferError", fetched, judged)
    /\ UNCHANGED <<client, freelancer, job_title, requirements, payment_amount,
                   submission_url, status, created_at, deadline, now, transfers>>

\* mutant: no try/except around gl.get_webpage
EvalFetchFailed_Propagates(e, transferOk, keep) ==
    /\ lastOp' = Raised("evaluate_and_release", "FetchError", "fail", 0)
    /\ UNCHANGED <<jobVars, now, transfers>>

\* the except branch of step 1: gl.get_webpage raised e
EvalFetchFailed(e, transferOk, keep) ==
    IF transferOk
    THEN /\ evaluation_result' = FetchFailureText(e)
         /\ Transfer(client, payment_amount)
         /\ status' = "refunded"
         /\ lastOp' = Returned("evaluate_and_release",
                               [kind |-> "dict", verdict |-> "REJECTED",
                                reason |-> <<"URL inaccessible">>],
                               "fail", 0)
         /\ UNCHANGED <<client, freelancer, job_title, requirements, payment_amount,
                        submission_url, created_at, deadline, now>>
    ELSE EvalTransferRaised(FetchFailureText(e), "fail", 0, keep)

\* mutant: only the approval is acted on; a rejection returns without refund
EvalJudged_RejectedStaysSubmitted(ai_response, transferOk, keep) ==
    LET verdict == ExtractVerdict(ai_response) IN
    IF transferOk
    THEN /\ evaluation_result' = ai_response
         /\ IF verdict = "APPROVED"
            THEN /\ Transfer(freelancer, payment_amount)
                 /\ status' = "completed"
            ELSE UNCHANGED <<transfers, status>>
         /\ lastOp' = Returned("evaluate_and_release",
                               [kind |-> "dict", verdict |-> verdict,
                                evaluation |-> ai_response],
                               "ok", 1)
         /\ UNCHANGED <<client, freelancer, job_title, requirements, payment_amount,
                        submission_url, created_at, deadline, now>>
    ELSE EvalTransferRaised(ai_response, "ok", 1, keep)

\* mutant: the payout branch looks for the bare word APPROVED, not the verdict
EvalJudged_LooseApproval(ai_response, transferOk, keep) ==
    LET verdict == ExtractVerdict(ai_response) IN
    IF transferOk
    THEN /\ evaluation_result' = ai_response
         /\ IF Contains(Upper(ai_response), <<"APPROVED">>)
            THEN /\ Transfer(freelancer, payment_amount)
                 /\ status' = "completed"
            ELSE /\ Transfer(client, payment_amount)
                 /\ status' = "refunded"
         /\ lastOp' = Returned("evaluate_and_release",
                               [kind |-> "dict", verdict |-> verdict,
                                evaluation |-> ai_response],
                               "ok", 1)
         /\ UNCHANGED <<client, freelancer, job_title, requirements, payment_amount,
                        submission_url, created_at, deadline, now>>
    ELSE EvalTransferRaised(ai_response, "ok", 1, keep)

\* mutant: response_upper is stored instead of ai_response
EvalJudged_StoresUpper(ai_response, transferOk, keep) ==
    LET verdict == ExtractVerdict(ai_response) IN
    IF transferOk
    THEN /\ evaluation_result' = Upper(ai_response)
         /\ IF verdict = "APPROVED"
            THEN /\ Transfer(freelancer, payment_amount)
                 /\ status' = "completed"
            ELSE /\ Transfer(client, payment_amount)
                 /\ status' = "refunded"
         /\ lastOp' = Returned("evaluate_and_release",
                               [kind |-> "dict", verdict |-> verdict,
                                evaluation |-> ai_response],
                               "ok", 1)
         /\ UNCHANGED <<client, freelancer, job_title, requirements, payment_amount,
                        submission_url, created_at, deadline, now>>
    ELSE EvalTransferRaised(Upper(ai_response), "ok", 1, keep)

\* steps 3-5: gl.call_llm returned ai_response
EvalJudged(ai_response, transferOk, keep) ==
    LET verdict == ExtractVerdict(ai_response) IN
    IF transferOk
    THEN /\ evaluation_result' = ai_response
         /\ IF verdict = "APPROVED"
            THEN /\ Transfer(freelancer, payment_amount)
                 /\ status' = "completed"
            ELSE /\ Transfer(client, payment_amount)
                 /\ status' = "refunded"
         /\ lastOp' = Returned("evaluate_and_release",
                               [kind |-> "dict", verdict |-> verdict,
                                evaluation |-> ai_response],
                               "ok", 1)
         /\ UNCHANGED <<client, freelancer, job_title, requirements, payment_amount,
                        submission_url, created_at, deadline, now>>
    ELSE EvalTransferRaised(ai_response, "ok", 1, keep)

\* how the gl.transfer of an evaluation ends: <<transferOk, keep>>
TransferOutcomes == {<<TRUE, FALSE>>, <<FALSE, TRUE>>, <<FALSE, FALSE>>}

\* The prompt of step 2 is built from job_title, requirements, submission_url
\* and submission_content[:4000] and is read by the judge alone; the judge is
\* free to answer any text, so ai_response is drawn from Judgments.
\* gl.message.sender is not read anywhere in the method.
evaluate_and_release(sender) ==
    IF status # "submitted"
    THEN AssertFails("evaluate_and_release", "No submission to evaluate")
    ELSE \E o \in TransferOutcomes :
            \/ \E e \in FetchErrors : EvalFetchFailed(e, o[1], o[2])
            \/ \E ai_response \in Judgments : EvalJudged(ai_response, o[1], o[2])

EvaluateAndRelease == \E sender \in Accounts : evaluate_and_release(sender)

\* a refund operation whose gl.transfer raised: nothing was written before it
RefundTransferRaised(op) ==
    /\ lastOp' = Raised(op, "TransferError", "none", 0)
    /\ UNCHANGED <<jobVars, now, transfers>>

\* mutant: status is not updated after the refund
cancel_job_KeepsStatus(sender, transferOk) ==
    IF status # "open" THEN AssertFails("cancel_job", "Can only cancel open jobs")
    ELSE IF sender # client
    THEN AssertFails("cancel_job", "Only client can cancel")
    ELSE IF ~transferOk THEN RefundTransferRaised("cancel_job")
    ELSE /\ Transfer(client, payment_amount)
         /\ lastOp' = Returned("cancel_job", NoRet, "none", 0)
         /\ UNCHANGED <<jobVars, now>>

\* -------------------------------------------------------------- cancel_job
cancel_job(sender, transferOk) ==
    IF status # "open" THEN AssertFails("cancel_job", "Can only cancel open jobs")
    ELSE IF sender # client
    THEN AssertFails("cancel_job", "Only client can cancel")
    ELSE IF ~transferOk THEN RefundTransferRaised("cancel_job")
    ELSE /\ Transfer(client, payment_amount)
         /\ status' = "refunded"
         /\ lastOp' = Returned("cancel_job", NoRet, "none", 0)
         /\ UNCHANGED <<client, freelancer, job_title, requirements, payment_amount,
                        submission_url, created_at, deadline, evaluation_result, now>>

CancelJob == \E sender \in Accounts, transferOk \in BOOLEAN : cancel_job(sender, transferOk)

\* mutant: the deadline refund is open to never accepted jobs only
claim_deadline_refund_OpenOnly(sender, transferOk) ==
    IF ~(now > deadline)
    THEN AssertFails("claim_deadline_refund", "Deadline not yet passed")
    ELSE IF status # "open"
    THEN AssertFails("claim_deadline_refund", "Invalid status for deadline refund")
    ELSE IF sender # client
    THEN AssertFails("claim_deadline_refund", "Only client can claim deadline refund")
    ELSE IF ~transferOk THEN RefundTransferRaised("claim_deadline_refund")
    ELSE /\ Transfer(client, payment_amount)
         /\ status' = "refunded"
         /\ lastOp' = Returned("claim_deadline_refund", NoRet, "none", 0)
         /\ UNCHANGED <<client, freelancer, job_title, requirements, payment_amount,
                        submission_url, created_at, deadline, evaluation_result, now>>

\* mutant: the deadline itself already counts as passed
claim_deadline_refund_AtDeadline(sender, transferOk) ==
    IF ~(now >= deadline)
    THEN AssertFails("claim_deadline_refund", "Deadline not yet passed")
    ELSE IF status \notin {"open", "in_progress"}
    THEN AssertFails("claim_deadline_refund", "Invalid status for deadline refund")
    ELSE IF sender # client
    THEN AssertFails("claim_deadline_refund", "Only client can claim deadline refund")
    ELSE IF ~transferOk THEN RefundTransferRaised("claim_deadline_refund")
    ELSE /\ Transfer(client, payment_amount)
         /\ status' = "refunded"
         /\ lastOp' = Returned("claim_deadline_refund", NoRet, "none", 0)
         /\ UNCHANGED <<client, freelancer, job_title, requirements, payment_amount,
                        submission_url, created_at, deadline, evaluation_result, now>>

\* mutant: the status assert is missing
claim_deadline_refund_AnyStatus(sender, transferOk) ==
    IF ~(now > deadline)
    THEN AssertFails("claim_deadline_refund", "Deadline not yet passed")
    ELSE IF sender # client
    THEN AssertFails("claim_deadline_refund", "Only client can claim deadline refund")
    ELSE IF ~transferOk THEN RefundTransferRaised("claim_deadline_refund")
    ELSE /\ Transfer(client, payment_amount)
         /\ status' = "refunded"
         /\ lastOp' = Returned("claim_deadline_refund", NoRet, "none", 0)
         /\ UNCHANGED <<client, freelancer, job_title, requirements, payment_amount,
                        submission_url, created_at, deadline, evaluation_result, now>>

\* --------------------------------------------------- claim_deadline_refund
claim_deadline_refund(sender, transferOk) ==
    IF ~(now > deadline)
    THEN AssertFails("claim_deadline_refund", "Deadline not yet passed")
    ELSE IF status \notin {"open", "in_progress"}
    THEN AssertFails("claim_deadline_refund", "Invalid status for deadline refund")
    ELSE IF sender # client
    THEN AssertFails("claim_deadline_refund", "Only client can claim deadline refund")
    ELSE IF ~transferOk THEN RefundTransferRaised("claim_deadline_refund")
    ELSE /\ Transfer(client, payment_amount)
         /\ status' = "refunded"
         /\ lastOp' = Returned("claim_deadline_refund", NoRet, "none", 0)
         /\ UNCHANGED <<client, freelancer, job_title, requirements, payment_amount,
                        submission_url, created_at, deadline, evaluation_result, now>>

ClaimDeadlineRefund ==
    \E sender \in Accounts, transferOk \in BOOLEAN : claim_deadline_refund(sender, transferOk)

\* mutant: a submitted job can be withdrawn from too
withdraw_as_freelancer_AfterSubmit(sender) ==
    IF status \notin {"in_progress", "submitted"}
    THEN AssertFails("withdraw_as_freelancer", "Can only withdraw from in-progress jobs")
    ELSE IF sender # freelancer
    THEN AssertFails("withdraw_as_freelancer", "Only assigned freelancer can withdraw")
    ELSE /\ freelancer' = NoAddress
         /\ status' = "open"
         /\ lastOp' = Returned("withdraw_as_freelancer", NoRet, "none", 0)
         /\ UNCHANGED <<client, job_title, requirements, payment_amount,
                        submission_url, created_at, deadline, evaluation_result,
                        now, transfers>>

\* mutant: the freelancer is not cleared
withdraw_as_freelancer_KeepsFreelancer(sender) ==
    IF status # "in_progress"
    THEN AssertFails("withdraw_as_freelancer", "Can only withdraw from in-progress jobs")
    ELSE IF sender # freelancer
    THEN AssertFails("withdraw_as_freelancer", "Only assigned freelancer can withdraw")
    ELSE /\ status' = "open"
         /\ lastOp' = Returned("withdraw_as_freelancer", NoRet, "none", 0)
         /\ UNCHANGED <<client, freelancer, job_title, requirements, payment_amount,
                        submission_url, created_at, deadline, evaluation_result,
                        now, transfers>>

\* -------------------------------------------------- withdraw_as_freelancer
withdraw_as_freelancer(sender) ==
    IF status # "in_progress"
    THEN AssertFails("withdraw_as_freelancer", "Can only withdraw from in-progress jobs")
    ELSE IF sender # freelancer
    THEN AssertFails("withdraw_as_freelancer", "Only assigned freelancer can withdraw")
    ELSE /\ freelancer' = NoAddress
         /\ status' = "open"
         /\ lastOp' = Returned("withdraw_as_freelancer", NoRet, "none", 0)
         /\ UNCHANGED <<client, job_title, requirements, payment_amount,
                        submission_url, created_at, deadline, evaluation_result,
                        now, transfers>>

WithdrawAsFreelancer == \E sender \in Accounts : withdraw_as_freelancer(sender)

\* ------------------------------------------------------ gl.block.timestamp
\* the block timestamps at which calls are made
Timestamps == {created_at} \cup ((deadline - TimeWindow)..(deadline + TimeWindow))

\* a later block: the timestamp only grows, and no call changes it
AdvanceTime ==
    /\ \E t \in Timestamps : t > now /\ now' = t
    /\ UNCHANGED <<jobVars, transfers, lastOp>>

\* ------------------------------------------------------------ view methods
is_deadline_passed == now > deadline

\* mutant: the floor at the deadline is missing
time_remaining_NoFloor == deadline - now

time_remaining == IF now >= deadline THEN 0 ELSE deadline - now

Next ==
    \/ AcceptJob /\ UNCHANGED judgment
    \/ SubmitWork /\ UNCHANGED judgment
    \/ EvaluateAndRelease /\ UNCHANGED judgment
    \/ CancelJob /\ UNCHANGED judgment
    \/ ClaimDeadlineRefund /\ UNCHANGED judgment
    \/ WithdrawAsFreelancer /\ UNCHANGED judgment
    \/ AdvanceTime /\ UNCHANGED judgment

Spec == Init /\ [][Next]_vars

\* ------------------------------------------- verdict parsing on longer texts
\* A text holding both markers needs four tokens. SpecVerdict fixes the
\* judge's answer in advance, among the texts of up to MaxVerdictLen tokens,
\* and follows one job through accept_job, submit_work and the evaluation
\* that gets this answer (the fetch and the transfer going through).
VerdictTexts == SeqsUpTo(Tokens, MaxVerdictLen)

InitVerdict == JobInit /\ judgment \in VerdictTexts

EvaluateJudgment ==
    /\ status = "submitted"
    /\ EvalJudged(judgment, TRUE, FALSE)
    /\ UNCHANGED judgment

NextVerdict ==
    \/ AcceptJob /\ UNCHANGED judgment
    \/ SubmitWork /\ UNCHANGED judgment
    \/ EvaluateJudgment

SpecVerdict == InitVerdict /\ [][NextVerdict]_vars

\* an evaluate_and_release call on a submitted job whose gl.transfer goes through
EvaluateReleases ==
    /\ status = "submitted"
    /\ \/ \E e \in FetchErrors : EvalFetchFailed(e, TRUE, FALSE)
       \/ \E ai_response \in Judgments : EvalJudged(ai_response, TRUE, FALSE)
    /\ UNCHANGED judgment

\* The write methods are public and anyone may call evaluate_and_release; the
\* host runs a call that stays possible, and the ledger does not refuse the
\* transfer forever.
FairSpec == Spec /\ WF_vars(EvaluateReleases)

\* =========================================================== properties
Terminal == status \in {"completed", "refunded"}

\* the messages of the asserts of the write methods
AssertMessages ==
    {"Job not available", "Client cannot accept own job", "Job not in progress",
     "Only assigned freelancer can submit", "URL cannot be empty",
     "No submission to evaluate", "Can only cancel open jobs", "Only client can cancel",
     "Deadline not yet passed", "Invalid status for deadline refund",
     "Only client can claim deadline refund",
     "Can only withdraw from in-progress jobs", "Only assigned freelancer can withdraw"}

\* a step that is a call of a write method (the timestamp moves in no call)
IsCall == now' = now

FullPaymentTo(to) == transfers = <<[to |-> to, amount |-> payment_amount]>>

\* C1: the payment is disbursed exactly once and only on entering Completed or
\* Refunded: no transfer has been made while status is Open, InProgress or
\* Submitted, and exactly one, of the full payment_amount, once status is
\* Completed or Refunded.
C1_DisbursedExactlyOnce ==
    /\ status \in {"open", "in_progress", "submitted", "completed", "refunded"}
    /\ status \in {"open", "in_progress", "submitted"} => Len(transfers) = 0
    /\ Terminal => /\ Len(transfers) = 1
                   /\ transfers[1].amount = payment_amount
                   /\ payment_amount = DeployValue

C1_Witness ==
    /\ status = "completed"
    /\ Len(transfers) = 1
    /\ transfers[1].amount = DeployValue

\* C2: Completed and Refunded are terminal: from a terminal state every call
\* of a write method fails on an assert, and no step changes status, any
\* other field of the job, or the transfers.
C2_TerminalIsFinal ==
    [][Terminal =>
          /\ status' = status
          /\ transfers' = transfers
          /\ UNCHANGED jobVars
          /\ IsCall => lastOp'.err \in AssertMessages]_vars

C2_Witness ==
    /\ status = "completed"
    /\ lastOp.op = "evaluate_and_release"
    /\ lastOp.err = "No submission to evaluate"

\* The spec's marker of approval, read off the text position by position:
\* "VERDICT:", at most one space, "APPROVED", in any letter case.
HasApprovedMarker(text) ==
    \E i \in 1..(Len(text) - 1) :
        /\ UpperTok(text[i]) \in {"VERDICT: ", "VERDICT:"}
        /\ UpperTok(text[i + 1]) = "APPROVED"

PreAccept(sender) == status = "open" /\ sender # client
PreSubmit(sender, url) == status = "in_progress" /\ sender = freelancer /\ url # EmptyText
PreWithdraw(sender) == status = "in_progress" /\ sender = freelancer
PreCancel(sender) == status = "open" /\ sender = client
PreClaim(sender) == status \in {"open", "in_progress"} /\ now > deadline /\ sender = client
PreEvaluate == status = "submitted"

FailsUnchanged == lastOp'.err \in AssertMessages /\ UNCHANGED <<jobVars, transfers>>

\* C4: a call whose precondition is violated fails on an assert and leaves
\* every field of the job and the transfers unchanged; a second accept_job
\* leaves status in_progress and the first freelancer assigned, accept_job by
\* the client leaves status open, cancel_job on an accepted job leaves status
\* in_progress.
C4_FailedCallChangesNothing ==
    [][/\ \A sender \in Accounts :
            /\ ~PreAccept(sender) /\ accept_job(sender) => FailsUnchanged
            /\ \A url \in Urls :
                  ~PreSubmit(sender, url) /\ submit_work(sender, url) => FailsUnchanged
            /\ ~PreWithdraw(sender) /\ withdraw_as_freelancer(sender) => FailsUnchanged
            /\ ~PreEvaluate /\ evaluate_and_release(sender) => FailsUnchanged
            /\ \A transferOk \in BOOLEAN :
                  /\ ~PreCancel(sender) /\ cancel_job(sender, transferOk) => FailsUnchanged
                  /\ ~PreClaim(sender) /\ claim_deadline_refund(sender, transferOk)
                        => FailsUnchanged
       /\ IsCall /\ lastOp'.err \in AssertMessages => UNCHANGED <<jobVars, transfers>>
       /\ status = "in_progress" /\ AcceptJob
             => status' = "in_progress" /\ freelancer' = freelancer
       /\ status = "open" /\ accept_job(client) => status' = "open"
       /\ status = "in_progress" /\ CancelJob => status' = "in_progress"]_vars

\* the second freelancer was turned away
C4_Witness ==
    /\ lastOp.op = "accept_job"
    /\ lastOp.err = "Job not available"
    /\ status = "in_progress"
    /\ freelancer = "f1"

Edges ==
    {<<"open", "in_progress", "accept_job">>,
     <<"in_progress", "submitted", "submit_work">>,
     <<"in_progress", "open", "withdraw_as_freelancer">>,
     <<"open", "refunded", "cancel_job">>,
     <<"open", "refunded", "claim_deadline_refund">>,
     <<"in_progress", "refunded", "claim_deadline_refund">>,
     <<"submitted", "completed", "evaluate_and_release">>,
     <<"submitted", "refunded", "evaluate_and_release">>}

\* C5: status changes only along the edges of the lifecycle, each by its own
\* operation, so a job that becomes Completed was Submitted, with a
\* freelancer assigned and a submission url.
C5_OnlyLifecycleEdges ==
    [][status' # status =>
          /\ <<status, status', lastOp'.op>> \in Edges
          /\ lastOp'.err = ""
          /\ status' = "completed" =>
                /\ status = "submitted"
                /\ freelancer # NoAddress
                /\ submission_url # EmptyText]_vars

\* the deadline refund of an accepted job
C5_Witness ==
    /\ status = "refunded"
    /\ lastOp.op = "claim_deadline_refund"
    /\ lastOp.err = ""
    /\ freelancer # NoAddress

Succeeds == lastOp'.err = ""

\* what an evaluation leaves behind, told without naming the caller
EvaluationOutcome ==
    /\ status' \in {"completed", "refunded"}
    /\ transfers' = <<[to |-> IF status' = "completed" THEN freelancer ELSE client,
                       amount |-> payment_amount]>>
    /\ evaluation_result' =
          IF lastOp'.fetched = "ok" THEN lastOp'.ret.evaluation
          ELSE FetchFailureText(SubSeq(evaluation_result', 2, Len(evaluation_result')))
    /\ status' = "completed" <=> (lastOp'.fetched = "ok" /\ lastOp'.ret.verdict = "APPROVED")

\* C6: accept_job succeeds only for a caller other than the client,
\* submit_work and withdraw_as_freelancer only for the assigned freelancer,
\* cancel_job and claim_deadline_refund only for the client; on a Submitted
\* job evaluate_and_release can succeed, either way, for every caller, no
\* caller is refused, and what it leaves behind is told by the fetch, the
\* judgment and the job alone.
C6_ActorAuthorisation ==
    /\ [](status = "submitted" =>
            \A sender \in Accounts :
               /\ ENABLED (evaluate_and_release(sender) /\ status' = "completed")
               /\ ENABLED (evaluate_and_release(sender) /\ status' = "refunded"))
    /\ [][/\ lastOp'.err = "" /\ lastOp'.op \in {"accept_job", "submit_work",
                "withdraw_as_freelancer", "cancel_job", "claim_deadline_refund"}
             => \A sender \in Accounts :
                  /\ accept_job(sender) => sender # client
                  /\ (\E url \in Urls : submit_work(sender, url)) => sender = freelancer
                  /\ withdraw_as_freelancer(sender) => sender = freelancer
                  /\ cancel_job(sender, TRUE) => sender = client
                  /\ claim_deadline_refund(sender, TRUE) => sender = client
          /\ status = "submitted" /\ IsCall /\ lastOp'.op = "evaluate_and_release"
             => /\ lastOp'.err \in {"", "TransferError"}
                /\ Succeeds => EvaluationOutcome]_vars

\* a stranger's submission was turned away
C6_Witness ==
    /\ lastOp.op = "submit_work"
    /\ lastOp.err = "Only assigned freelancer can submit"
    /\ status = "in_progress"
    /\ freelancer \in Accounts

\* C7 as stated: in every reachable state freelancer is unset iff status is
\* Open.
C7_UnsetIffOpen == (freelancer = NoAddress) <=> (status = "open")

\* C7, amended: freelancer is unset iff status is Open or the job was
\* refunded while Open; it is unset while Open, set while InProgress,
\* Submitted or Completed, and a refund leaves it as it was.
C7_UnsetIffOpenOrRefundedOpen ==
    /\ [](/\ status = "open" => freelancer = NoAddress
          /\ status \in {"in_progress", "submitted", "completed"} => freelancer # NoAddress)
    /\ [][/\ status # "refunded" /\ status' = "refunded"
             => (freelancer' = NoAddress <=> status = "open")
          /\ status = "refunded" => freelancer' = freelancer]_vars

\* a job cancelled before anyone accepted it
C7_Witness ==
    /\ status = "refunded"
    /\ freelancer = NoAddress
    /\ lastOp.op = "cancel_job"
    /\ lastOp.err = ""

\* C8: client # freelancer in every reachable state, and a payment released
\* on approval goes to the assigned freelancer, never to the client.
C8_ClientIsNotFreelancer ==
    /\ client # freelancer
    /\ status = "completed" =>
          /\ FullPaymentTo(freelancer)
          /\ transfers[1].to # client

\* an approved job held by the second account: the payment went to it
C8_Witness ==
    /\ status = "completed"
    /\ freelancer = "f2"
    /\ transfers[1].to = "f2"
    /\ client = ClientAccount

FetchFailurePrefix == <<"REJECTED: Could not access submission URL. Error: ">>

\* C9: an evaluation whose fetch failed invoked no judge and raised no fetch
\* error; unless the transfer raised, it recorded the text starting
\* "REJECTED: Could not access submission URL. Error:", sent the full amount
\* to the client, set status refunded and returned verdict REJECTED with
\* reason "URL inaccessible".
C9_FetchFailureRefunds ==
    (lastOp.op = "evaluate_and_release" /\ lastOp.fetched = "fail") =>
        /\ lastOp.judgeCalls = 0
        /\ lastOp.err \in {"", "TransferError"}
        /\ lastOp.err = "" =>
              /\ Len(evaluation_result) > 1
              /\ SubSeq(evaluation_result, 1, 1) = FetchFailurePrefix
              /\ FullPaymentTo(client)
              /\ status = "refunded"
              /\ lastOp.ret = [kind |-> "dict", verdict |-> "REJECTED",
                               reason |-> <<"URL inaccessible">>]

C9_Witness ==
    /\ lastOp.op = "evaluate_and_release"
    /\ lastOp.fetched = "fail"
    /\ lastOp.err = ""
    /\ status = "refunded"
    /\ evaluation_result = FetchFailurePrefix \o <<"404">>

\* C10: an evaluation whose fetch succeeded invoked the judge exactly once;
\* unless the transfer raised, evaluation_result is the raw response, the
\* verdict is APPROVED exactly when the response carries the approval marker,
\* APPROVED sends the full amount to the freelancer and sets completed,
\* REJECTED sends it to the client and sets refunded.
C10_JudgedOutcome ==
    (lastOp.op = "evaluate_and_release" /\ lastOp.fetched = "ok") =>
        /\ lastOp.judgeCalls = 1
        /\ lastOp.err \in {"", "TransferError"}
        /\ lastOp.err = "" =>
              /\ evaluation_result = lastOp.ret.evaluation
              /\ lastOp.ret.verdict \in {"APPROVED", "REJECTED"}
              /\ lastOp.ret.verdict = "APPROVED" <=> HasApprovedMarker(lastOp.ret.evaluation)
              /\ lastOp.ret.verdict = "APPROVED" =>
                    status = "completed" /\ FullPaymentTo(freelancer)
              /\ lastOp.ret.verdict = "REJECTED" =>
                    status = "refunded" /\ FullPaymentTo(client)

\* an approval written in lower case, kept as written
C10_Witness ==
    /\ lastOp.op = "evaluate_and_release"
    /\ lastOp.fetched = "ok"
    /\ lastOp.err = ""
    /\ lastOp.ret.verdict = "APPROVED"
    /\ evaluation_result = <<"verdict: ", "Approved">>
    /\ status = "completed"
    /\ FullPaymentTo(freelancer)

\* C11: a call of cancel_job, claim_deadline_refund or evaluate_and_release whose
\* gl.transfer raises aborts without committing anything: status, every other
\* job field (evaluation_result included) and the transfers made are unchanged.
C11_TransferFailureCommitsNothing ==
    [][IsCall /\ lastOp'.err = "TransferError"
       => UNCHANGED <<jobVars, transfers>>]_vars

\* C12: claim_deadline_refund, its transfer not raising, succeeds exactly when
\* now > deadline, status is open or in_progress and the caller is the client;
\* on success the full payment_amount goes to the client and status becomes
\* refunded; otherwise (now <= deadline, now = deadline included, status
\* submitted, completed or refunded, or another caller) it fails on an assert
\* and changes nothing.
C12_DeadlineRefund ==
    [][\A sender \in Accounts :
          claim_deadline_refund(sender, TRUE)
          => /\ Succeeds <=> PreClaim(sender)
             /\ Succeeds => /\ status' = "refunded"
                            /\ transfers' = <<[to |-> client, amount |-> payment_amount]>>
                            /\ UNCHANGED <<client, freelancer, payment_amount,
                                           submission_url, deadline, evaluation_result>>
             /\ ~PreClaim(sender) => FailsUnchanged
             /\ (now <= deadline \/ status \in {"submitted", "completed", "refunded"})
                => ~Succeeds]_vars

\* the client has claimed the refund of a never accepted job one second after
\* the deadline
C12_Witness ==
    /\ lastOp.op = "claim_deadline_refund"
    /\ lastOp.err = ""
    /\ now = deadline + 1
    /\ freelancer = NoAddress
    /\ status = "refunded"
    /\ FullPaymentTo(client)

\* the rule handed to gl.equivalence_principle: two evaluations are equivalent
\* if they reach the same final verdict, whatever their wording
equivalent(a, b) == ExtractVerdict(a) = ExtractVerdict(b)

\* what evaluate_and_release does to the job when the judge answers a and the
\* transfer goes through: the statuses and the recipients it can end with
JudgedOutcome(a) ==
    <<{st \in {"completed", "refunded"} :
          ENABLED (EvalJudged(a, TRUE, FALSE) /\ status' = st)},
      {to \in Accounts :
          ENABLED (EvalJudged(a, TRUE, FALSE)
                   /\ transfers' = Append(transfers, [to |-> to, amount |-> payment_amount]))}>>

\* C13: the verdict equivalence rule is reflexive and symmetric over all pairs
\* of judgment texts (a text without marker counting as REJECTED), and two
\* equivalent judgments drive evaluate_and_release on a submitted job to the
\* same final status and the same recipient. The job is taken as a successful
\* submit_work leaves it, at every timestamp and for every freelancer: the
\* steps after the judgment read client, freelancer, payment_amount and
\* transfers only.
C13_EquivalentJudgmentsAgree ==
    (status = "submitted" /\ lastOp.op = "submit_work" /\ lastOp.err = "")
    => \A out \in {[a \in Judgments |-> JudgedOutcome(a)]} :
          \A a, b \in Judgments :
             /\ equivalent(a, a)
             /\ equivalent(a, b) <=> equivalent(b, a)
             /\ ExtractVerdict(a) \in {"APPROVED", "REJECTED"}
             /\ equivalent(a, b) => out[a] = out[b]

\* a submitted job on which a marker-less judgment and a plain rejection,
\* which are equivalent, both end in a refund to the client
C13_Witness ==
    /\ status = "submitted"
    /\ lastOp.op = "submit_work"
    /\ lastOp.err = ""
    /\ equivalent(EmptyText, <<"Verdict:", "REJECTED">>)
    /\ ~equivalent(EmptyText, <<"Verdict:", "Approved">>)
    /\ JudgedOutcome(EmptyText) = <<{"refunded"}, {client}>>
    /\ JudgedOutcome(<<"Verdict:", "REJECTED">>) = <<{"refunded"}, {client}>>
    /\ JudgedOutcome(<<"Verdict:", "Approved">>) = <<{"completed"}, {freelancer}>>

Max(x, y) == IF x >= y THEN x ELSE y

\* C14: time_remaining() is max(0, deadline - now) and never negative; while
\* the timestamp grows it strictly decreases as long as it is positive and
\* stays 0 once it has reached 0; is_deadline_passed() is true exactly when
\* now > deadline, so it is still false at now = deadline, where
\* time_remaining() is already 0.
C14_TimeViews ==
    /\ [](/\ time_remaining = Max(0, deadline - now)
          /\ time_remaining >= 0
          /\ is_deadline_passed <=> now > deadline
          /\ is_deadline_passed => time_remaining = 0
          /\ now = deadline => ~is_deadline_passed /\ time_remaining = 0)
    /\ [][now' > now
          => /\ time_remaining' <= time_remaining
             /\ time_remaining > 0 => time_remaining' < time_remaining
             /\ time_remaining = 0 => time_remaining' = 0]_vars

\* one second past the deadline: the remaining time has stopped at 0
C14_Witness ==
    /\ now = deadline + 1
    /\ time_remaining = 0
    /\ is_deadline_passed

\* C15: every evaluate_and_release call on a submitted job ends at one of its
\* exits: it raises only when gl.transfer raises, and otherwise returns its
\* result and leaves the job completed or refunded, whatever the fetch and the
\* judge gave; hence, evaluate_and_release with a transfer that goes through
\* being weakly fair, a submitted job eventually is completed or refunded.
C15_SubmittedReachesTerminal ==
    /\ [][(PreEvaluate /\ IsCall /\ lastOp'.op = "evaluate_and_release")
          => /\ lastOp'.err \in {"", "TransferError"}
             /\ lastOp'.fetched \in {"ok", "fail"}
             /\ lastOp'.err = ""
                => /\ lastOp'.ret.kind = "dict"
                   /\ status' \in {"completed", "refunded"}
             /\ lastOp'.err = "TransferError" => status' = "submitted"]_vars
    /\ (status = "submitted") ~> Terminal

\* an evaluation whose fetch failed has ended the submitted job with a refund
C15_Witness ==
    /\ lastOp.op = "evaluate_and_release"
    /\ lastOp.err = ""
    /\ lastOp.fetched = "fail"
    /\ submission_url # EmptyText
    /\ status = "refunded"

\* a verdict marker starting at position i of the text: "VERDICT:", at most one
\* space, then the word, in any letter case
MarkerAt(text, i, word) ==
    /\ i \in 1..(Len(text) - 1)
    /\ UpperTok(text[i]) \in {"VERDICT: ", "VERDICT:"}
    /\ UpperTok(text[i + 1]) = word

HasRejectedMarker(text) == \E i \in 1..Len(text) : MarkerAt(text, i, "REJECTED")

HasBothMarkers(text) == HasApprovedMarker(text) /\ HasRejectedMarker(text)

\* the verdict of the marker that occurs first in a text that has one
FirstMarkerVerdict(text) ==
    LET first == CHOOSE i \in 1..Len(text) :
                    /\ MarkerAt(text, i, "APPROVED") \/ MarkerAt(text, i, "REJECTED")
                    /\ \A j \in 1..(i - 1) :
                          ~(MarkerAt(text, j, "APPROVED") \/ MarkerAt(text, j, "REJECTED"))
    IN IF MarkerAt(text, first, "APPROVED") THEN "APPROVED" ELSE "REJECTED"

\* the evaluation that got the answer judgment has returned
JudgmentEvaluated == lastOp.op = "evaluate_and_release" /\ lastOp.err = ""

C18_EvaluationResultTracksEvaluation ==
    /\ [](/\ status \in {"open", "in_progress", "submitted"}
             => evaluation_result = EmptyText
          /\ (status = "refunded" /\ submission_url = EmptyText)
             => evaluation_result = EmptyText
          /\ (Terminal /\ submission_url # EmptyText)
             => evaluation_result # EmptyText)
    /\ [][evaluation_result' # evaluation_result
          => lastOp'.op = "evaluate_and_release" /\ status = "submitted"]_vars

\* C19: no step changes client, job_title, requirements, payment_amount,
\* created_at or deadline; payment_amount > 0 and deadline > created_at in
\* every state; submission_url changes only in a successful submit_work, which
\* finds it empty on an in_progress job and happens at most once per job (once
\* set, the url stays and the job never is open or in_progress again); so
\* submission_url is non-empty exactly when the job is or has been submitted.
C19_FrameAndSubmissionUrl ==
    /\ [](/\ payment_amount > 0
          /\ deadline > created_at
          /\ status \in {"open", "in_progress"} => submission_url = EmptyText
          /\ status \in {"submitted", "completed"} => submission_url # EmptyText)
    /\ [][/\ UNCHANGED <<client, job_title, requirements, payment_amount,
                         created_at, deadline>>
          /\ submission_url' # submission_url
             => /\ lastOp'.op = "submit_work"
                /\ Succeeds
                /\ status = "in_progress"
                /\ status' = "submitted"
                /\ submission_url = EmptyText
          /\ (IsCall /\ lastOp'.op = "submit_work" /\ Succeeds /\ lastOp' # lastOp)
             => /\ submission_url = EmptyText
                /\ submission_url' # EmptyText
          /\ submission_url # EmptyText
             => /\ submission_url' = submission_url
                /\ status' \in {"submitted", "completed", "refunded"}
          /\ (status' = "refunded" /\ status # "refunded")
             => (submission_url' # EmptyText <=> status = "submitted")]_vars

\* a job just submitted: the url is stored, the fields of construction are as
\* the test deployed them
C19_Witness ==
    /\ lastOp.op = "submit_work"
    /\ lastOp.err = ""
    /\ status = "submitted"
    /\ submission_url = <<"https://good.url">>
    /\ client = ClientAccount
    /\ payment_amount = DeployValue
    /\ deadline = created_at + DeployDeadlineHours * SecondsPerHour

\* C20: the deadline gates claim_deadline_refund only. Past the deadline
\* accept_job by anyone but the client still succeeds on an open job, and on an
\* in_progress job both submit_work by the freelancer and
\* claim_deadline_refund by the client can succeed. Whichever of the two is
\* executed first disables the other for good: from submitted on, cancel_job,
\* claim_deadline_refund and submit_work fail at every timestamp and change
\* nothing, and the job never is open or in_progress again.
C20_DeadlineGatesOnlyTheRefund ==
    /\ [](is_deadline_passed
          => /\ status = "open"
                => \A sender \in Accounts \ {client} :
                      ENABLED (accept_job(sender) /\ lastOp'.err = "")
             /\ status = "in_progress"
                => /\ \A url \in Urls \ {EmptyText} :
                         ENABLED (/\ submit_work(freelancer, url)
                                  /\ lastOp'.err = ""
                                  /\ status' = "submitted")
                   /\ ENABLED (/\ claim_deadline_refund(client, TRUE)
                               /\ lastOp'.err = ""
                               /\ status' = "refunded"))
    /\ [][(status \in {"submitted", "completed", "refunded"})
          => /\ status' \in {"submitted", "completed", "refunded"}
             /\ (IsCall /\ lastOp'.op \in {"cancel_job", "claim_deadline_refund",
                                           "submit_work"})
                => FailsUnchanged]_vars

\* past the deadline the freelancer's submission came first: the client's
\* claim_deadline_refund has failed on the submitted job
C20_Witness ==
    /\ is_deadline_passed
    /\ status = "submitted"
    /\ lastOp.op = "claim_deadline_refund"
    /\ lastOp.err = "Invalid status for deadline refund"
    /\ transfers = << >>

\* the call ends returning, with the job in status st
ReturnsIn(st) == lastOp'.err = "" /\ status' = st

\* the call ends returning, with the job terminal and the payment sent once
ReturnsDisbursed ==
    /\ lastOp'.err = ""
    /\ status' \in {"completed", "refunded"}
    /\ Len(transfers') = 1
    /\ transfers'[1].amount = payment_amount
    /\ transfers'[1].to \in {client, freelancer}

\* C21: the payment is never locked. In every reachable state that is not
\* terminal a write method can succeed: on an open job cancel_job by the client
\* and accept_job by anyone else; on an in_progress job submit_work and
\* withdraw_as_freelancer by the freelancer, and claim_deadline_refund by the
\* client once now > deadline; on a submitted job evaluate_and_release by
\* anyone. These steps lead to a terminal state with the payment disbursed:
\* in one call from open (cancel_job) and from submitted
\* (evaluate_and_release), in two from in_progress (withdraw_as_freelancer
\* into open, or submit_work into submitted); a terminal state has the payment
\* disbursed.
C21_FundsNeverLocked ==
    /\ status \in {"open", "in_progress", "submitted", "completed", "refunded"}
    /\ status = "open"
       => /\ ENABLED (cancel_job(client, TRUE) /\ ReturnsIn("refunded")
                      /\ ReturnsDisbursed)
          /\ \A sender \in Accounts \ {client} :
                ENABLED (accept_job(sender) /\ ReturnsIn("in_progress"))
    /\ status = "in_progress"
       => /\ \A url \in Urls \ {EmptyText} :
                ENABLED (submit_work(freelancer, url) /\ ReturnsIn("submitted"))
          /\ ENABLED (withdraw_as_freelancer(freelancer) /\ ReturnsIn("open"))
          /\ now > deadline
             => ENABLED (claim_deadline_refund(client, TRUE) /\ ReturnsIn("refunded")
                         /\ ReturnsDisbursed)
    /\ status = "submitted"
       => \A sender \in Accounts :
             ENABLED (evaluate_and_release(sender) /\ ReturnsDisbursed)
    /\ Terminal
       => /\ Len(transfers) = 1
          /\ transfers[1].amount = payment_amount

\* a submitted job on which an evaluation has already failed on its transfer:
\* the evaluation can still be run and pay out
C21_Witness ==
    /\ status = "submitted"
    /\ lastOp.op = "evaluate_and_release"
    /\ lastOp.err = "TransferError"
    /\ transfers = << >>
    /\ ENABLED (evaluate_and_release(client) /\ ReturnsDisbursed)

====
